---- MODULE Spec2Model ----
(***************************************************************************)
(* The Wayfind burn-and-mint token program                                 *)
(* (src/app/contracts/programs/wayfind/src/lib.rs) as a state machine.     *)
(*                                                                         *)
(* One action per instruction handler.  A handler is a function from the   *)
(* accounts it is given and its arguments to an outcome: an error code and *)
(* the accounts as the handler left them.  The host commits the accounts   *)
(* of a handler that returned Ok and discards those of one that returned   *)
(* an error or aborted.                                                    *)
(*                                                                         *)
(* u64 is modelled as the integers modulo 2^WordBits.  The program's       *)
(* percentages (75, 25, 50..250, /100) are kept as they are, so the width  *)
(* is chosen large against 100 * 250.                                      *)
(***************************************************************************)
EXTENDS Integers, FiniteSets, TLC

VARIABLES
    overflow_checks,  \* build profile: does `*` / `+=` on u64 abort on overflow
    config,           \* the Config account
    user_credits,     \* the UserCredits account of every identity
    creator,          \* the Creator account of every identity
    token_balance,    \* token ledger: amount held by every token account
    mint_supply,      \* token ledger: supply of the mint
    clock,            \* Clock::get()?.unix_timestamp
    last,             \* the last instruction processed and its outcome
    epoch_distributed,\* sum of final_reward over the RewardDistributed
                      \* events that carry the current epoch
    batch             \* distribute_reward transactions submitted together
                      \* and not yet sequenced by the host

accounts == <<config, user_credits, creator, token_balance, mint_supply>>
vars == <<overflow_checks, config, user_credits, creator, token_balance,
          mint_supply, clock, last, epoch_distributed, batch>>

----------------------------------------------------------------------------
(* Program constants *)

BURN_RATIO == 75
REMINT_RATIO == 25
week_seconds == 7 * 24 * 60 * 60

----------------------------------------------------------------------------
(* Bounds of the model *)

WordBits == 20
InitialBalance == 14000
MaxUserBurned == 42000
HalfAmount == 7001
BaseAmount == 12002
SmallReward == 1750
BaseReward == 3000
SmallCap == 4500
MaxTicks == 2
ViewsPerReport == 7
MaxViews == 7

U64Mod == 2 ^ WordBits
U64_MAX == U64Mod - 1

Authority == "auth"
Identities == {"auth", "alice", "bob"}
TokenAccounts == Identities \cup {"treasury"}

\* the largest amount whose product with BURN_RATIO fits u64, the next one,
\* and the smallest amount whose product with REMINT_RATIO does not fit either
MaxSafeAmount == U64_MAX \div BURN_RATIO
OverflowAmount == MaxSafeAmount + 1
DoubleOverflowAmount == U64_MAX \div REMINT_RATIO + 1

\* the smallest base reward whose product with the Platinum multiplier wraps
OverflowReward == U64_MAX \div 200 + 1

TickStep == week_seconds

None == -1

----------------------------------------------------------------------------
(* Types *)

CreatorTier == {"Bronze", "Silver", "Gold", "Platinum", "Diamond"}

WayfindError == {"InvalidAmount", "Unauthorized", "InvalidScore",
                 "InsufficientPool", "WeeklyCapExceeded", "NothingToClaim",
                 "Overflow", "Underflow"}

\* a UserCredits account that init_if_needed has just created (zeroed)
NoUserCredits == [init |-> FALSE, credits |-> 0, total_burned |-> 0]

\* the address of a Creator account that was never initialized
NoCreator == [init |-> FALSE, payout_address |-> "none", total_views |-> 0,
              weekly_views |-> 0, reputation_score |-> 0, tier |-> "Bronze",
              total_earned |-> 0, pending_rewards |-> 0]

----------------------------------------------------------------------------
(* u64 arithmetic *)

checked_add(a, b) == IF a + b > U64_MAX THEN None ELSE a + b

checked_sub_Saturating(a, b) == IF a < b THEN 0 ELSE a - b

checked_sub(a, b) == IF a < b THEN None ELSE a - b

\* `a * b` and `a += b` on u64: the exact result x either fits, or the build
\* decides between an abort (overflow-checks) and the wrapped value
Aborts(x) == overflow_checks /\ x > U64_MAX

Wrapped(x) == x % U64Mod

----------------------------------------------------------------------------
(* Token ledger (SPL Token program, reached through CPI) *)

LedgerCanDebit(bal, acct, amount) == bal[acct] >= amount

LedgerDebit(bal, acct, amount) == [bal EXCEPT ![acct] = @ - amount]

LedgerCredit(bal, acct, amount) == [bal EXCEPT ![acct] = @ + amount]

----------------------------------------------------------------------------
(* Outcomes *)

\* no transaction in flight.  A batch keeps what Config held when it was
\* submitted and what its transactions have done since
NoBatch == [calls |-> {}, epoch |-> 0, reminted |-> 0, ok |-> 0, resets |-> 0,
            paid |-> 0]

\* what a handler returns: err, the accounts as it left them, and the locals
\* it had computed by then (None when not reached)
Outcome(e, cfg, uc, cr, bal, sup, b, r, f, m) ==
    [err |-> e, config |-> cfg, user_credits |-> uc, creator |-> cr,
     token_balance |-> bal, mint_supply |-> sup,
     burn_amount |-> b, remint_amount |-> r, final_reward |-> f, minted |-> m]

Call(op, caller, target, arg, tier) ==
    [op |-> op, caller |-> caller, target |-> target, arg |-> arg, tier |-> tier]

\* a host that stores the accounts as the handler left them, whatever the
\* handler returned
Store_NoRollback(call, out) ==
    /\ last' = [op |-> call.op, caller |-> call.caller,
                target |-> IF out.err = "Ok" THEN call.target ELSE "none",
                arg |-> call.arg,
                tier |-> IF out.err = "Ok" THEN call.tier ELSE "none",
                err |-> out.err,
                burn_amount |-> out.burn_amount,
                remint_amount |-> out.remint_amount,
                final_reward |-> out.final_reward, minted |-> out.minted]
    /\ config' = out.config
    /\ user_credits' = out.user_credits
    /\ creator' = out.creator
    /\ token_balance' = out.token_balance
    /\ mint_supply' = out.mint_supply
    /\ epoch_distributed' =
          IF out.err = "Ok" /\ call.op = "distribute_reward"
          THEN (IF out.config.current_epoch = config.current_epoch
                THEN epoch_distributed ELSE 0) + out.final_reward
          ELSE epoch_distributed
    /\ UNCHANGED <<overflow_checks, clock>>

\* The host runs an instruction as one transaction: the accounts a handler
\* wrote are stored only when it returned Ok.  `last` keeps the call, its
\* result and, for a call that returned Ok, the record it was addressed to
Store(call, out) ==
    /\ last' = [op |-> call.op, caller |-> call.caller,
                target |-> IF out.err = "Ok" THEN call.target ELSE "none",
                arg |-> call.arg,
                tier |-> IF out.err = "Ok" THEN call.tier ELSE "none",
                err |-> out.err,
                burn_amount |-> out.burn_amount,
                remint_amount |-> out.remint_amount,
                final_reward |-> out.final_reward, minted |-> out.minted]
    /\ IF out.err = "Ok"
       THEN /\ config' = out.config
            /\ user_credits' = out.user_credits
            /\ creator' = out.creator
            /\ token_balance' = out.token_balance
            /\ mint_supply' = out.mint_supply
       ELSE UNCHANGED accounts
    /\ epoch_distributed' =
          IF out.err = "Ok" /\ call.op = "distribute_reward"
          THEN (IF out.config.current_epoch = config.current_epoch
                THEN epoch_distributed ELSE 0) + out.final_reward
          ELSE epoch_distributed
    /\ UNCHANGED <<overflow_checks, clock>>

\* an instruction submitted on its own
Commit(call, out) == Store(call, out) /\ UNCHANGED batch

----------------------------------------------------------------------------
(* initialize *)

initialize(authority, weekly_cap, now) ==
    [authority |-> authority, remint_pool |-> 0, weekly_cap |-> weekly_cap,
     current_epoch |-> 0, epoch_start |-> now, total_burned |-> 0,
     total_reminted |-> 0]

Init(W) ==
    /\ overflow_checks \in BOOLEAN
    /\ epoch_distributed = 0
    /\ clock = 0
    /\ \E weekly_cap \in W.caps : config = initialize(Authority, weekly_cap, 0)
    /\ user_credits = [u \in Identities |-> NoUserCredits]
    /\ creator = [u \in Identities |-> NoCreator]
    /\ token_balance = [a \in TokenAccounts |->
                           IF a \in {"alice", "bob"} THEN InitialBalance ELSE 0]
    /\ mint_supply = 2 * InitialBalance
    /\ last = [op |-> "initialize", caller |-> Authority, target |-> "none",
               arg |-> 0, tier |-> "none", err |-> "Ok", burn_amount |-> None,
               remint_amount |-> None, final_reward |-> None, minted |-> None]
    /\ batch = NoBatch

----------------------------------------------------------------------------
(* burn_for_credits *)

\* a handler that lost its `require!(amount > 0, ...)`
AmountValid_Unchecked(amount) == TRUE

AmountValid(amount) == amount > 0

BurnAmount(amount) == Wrapped(amount * BURN_RATIO) \div 100

RemintAmount(amount) == Wrapped(amount * REMINT_RATIO) \div 100

\* credits granted for the burned portion instead of the whole amount
CreditsGranted_BurnedOnly(amount) == Wrapped(amount * BURN_RATIO) \div 100

\* a burn that grants nothing
CreditsGranted_Nothing(amount) == 0

CreditsGranted(amount) == amount

burn_for_credits_handler(user, amount) ==
    LET fail(e, b, r) == Outcome(e, config, user_credits, creator,
                                 token_balance, mint_supply, b, r, None, None)
    IN
    IF ~AmountValid(amount) THEN fail("InvalidAmount", None, None)
    ELSE IF Aborts(amount * BURN_RATIO) THEN fail("Panic", None, None)
    ELSE IF Aborts(amount * REMINT_RATIO) THEN fail("Panic", None, None)
    ELSE
    LET burn_amount == BurnAmount(amount)
        remint_amount == RemintAmount(amount)
        credits == CreditsGranted(amount)
    IN
    \* token::burn
    IF ~LedgerCanDebit(token_balance, user, burn_amount)
    THEN fail("InsufficientFunds", None, None)
    ELSE
    LET bal1 == LedgerDebit(token_balance, user, burn_amount)
        sup1 == mint_supply - burn_amount
    IN
    \* token::transfer
    IF ~LedgerCanDebit(bal1, user, remint_amount)
    THEN fail("InsufficientFunds", None, None)
    ELSE
    LET bal2 == LedgerCredit(LedgerDebit(bal1, user, remint_amount),
                             "treasury", remint_amount)
        pool == checked_add(config.remint_pool, remint_amount)
        burned == checked_add(config.total_burned, burn_amount)
        uc == user_credits[user]
        ucredits == checked_add(uc.credits, credits)
        uburned == checked_add(uc.total_burned, amount)
    IN
    IF pool = None \/ burned = None \/ ucredits = None \/ uburned = None
    THEN fail("Overflow", None, None)
    ELSE Outcome("Ok",
                 [config EXCEPT !.remint_pool = pool, !.total_burned = burned],
                 [user_credits EXCEPT ![user] =
                     [init |-> TRUE, credits |-> ucredits,
                      total_burned |-> uburned]],
                 creator, bal2, sup1, burn_amount, remint_amount, None, None)

burn_for_credits(user, amount) ==
    /\ user_credits[user].total_burned + amount <= MaxUserBurned
    /\ Commit(Call("burn_for_credits", user, "none", amount, "none"),
              burn_for_credits_handler(user, amount))

----------------------------------------------------------------------------
(* register_creator *)

NewCreator(payout_address) ==
    [init |-> TRUE, payout_address |-> payout_address, total_views |-> 0,
     weekly_views |-> 0, reputation_score |-> 50, tier |-> "Silver",
     total_earned |-> 0, pending_rewards |-> 0]

\* #[account(init, seeds = [b"creator", user.key()])]: creating an account at
\* an address that is already in use fails in the system program
\* init_if_needed in place of init: an existing profile is overwritten
CreatorAddressFree_IfNeeded(user) == TRUE

CreatorAddressFree(user) == ~creator[user].init

register_creator_handler(user, payout_address) ==
    IF ~CreatorAddressFree(user)
    THEN Outcome("AccountInUse", config, user_credits, creator, token_balance,
                 mint_supply, None, None, None, None)
    ELSE Outcome("Ok", config, user_credits,
                 [creator EXCEPT ![user] = NewCreator(payout_address)],
                 token_balance, mint_supply, None, None, None, None)

register_creator(user, payout_address) ==
    Commit(Call("register_creator", user, payout_address, 0, "none"),
           register_creator_handler(user, payout_address))

----------------------------------------------------------------------------
(* record_views *)

\* a handler that only requires a signer, not the stored authority
IsAuthority_AnySigner(authority) == TRUE

IsAuthority(authority) == authority = config.authority

record_views_handler(authority, target, views) ==
    LET fail(e) == Outcome(e, config, user_credits, creator, token_balance,
                           mint_supply, None, None, None, None)
        c == creator[target]
        total == checked_add(c.total_views, views)
        weekly == checked_add(c.weekly_views, views)
    IN
    IF ~IsAuthority(authority) THEN fail("Unauthorized")
    ELSE IF total = None \/ weekly = None THEN fail("Overflow")
    ELSE Outcome("Ok", config, user_credits,
                 [creator EXCEPT ![target] =
                     [c EXCEPT !.total_views = total, !.weekly_views = weekly]],
                 token_balance, mint_supply, None, None, None, None)

record_views(authority, target, views) ==
    /\ creator[target].init
    /\ creator[target].total_views + views <= MaxViews
    /\ Commit(Call("record_views", authority, target, views, "none"),
              record_views_handler(authority, target, views))

----------------------------------------------------------------------------
(* update_reputation *)

\* a handler that lost its `require!(score <= 100, ...)`
ScoreValid_Unchecked(score) == TRUE

ScoreValid(score) == score <= 100

update_reputation_handler(authority, target, score, tier) ==
    LET fail(e) == Outcome(e, config, user_credits, creator, token_balance,
                           mint_supply, None, None, None, None)
    IN
    IF ~IsAuthority(authority) THEN fail("Unauthorized")
    ELSE IF ~ScoreValid(score) THEN fail("InvalidScore")
    ELSE Outcome("Ok", config, user_credits,
                 [creator EXCEPT ![target] =
                     [@ EXCEPT !.reputation_score = score, !.tier = tier]],
                 token_balance, mint_supply, None, None, None, None)

update_reputation(authority, target, score, tier) ==
    /\ creator[target].init
    /\ Commit(Call("update_reputation", authority, target, score, tier),
              update_reputation_handler(authority, target, score, tier))

----------------------------------------------------------------------------
(* distribute_reward *)

Multiplier(tier) ==
    CASE tier = "Bronze" -> 50
      [] tier = "Silver" -> 100
      [] tier = "Gold" -> 150
      [] tier = "Platinum" -> 200
      [] tier = "Diamond" -> 250

\* a pool check made against nothing
PoolCovers_Unchecked(pool, reward_amount) == TRUE

PoolCovers(pool, reward_amount) == pool >= reward_amount

FinalReward(reward_amount, multiplier) ==
    Wrapped(reward_amount * multiplier) \div 100

EpochElapsed_Strict(current_time, epoch_start) ==
    current_time - epoch_start > week_seconds

EpochElapsed(current_time, epoch_start) ==
    current_time - epoch_start >= week_seconds

\* does `config.current_epoch += 1` abort
RolloverAborts(cfg, current_time) ==
    /\ EpochElapsed(current_time, cfg.epoch_start)
    /\ Aborts(cfg.current_epoch + 1)

\* a new epoch block that leaves epoch_start as it was
Rollover_KeepStart(cfg, current_time) ==
    IF EpochElapsed(current_time, cfg.epoch_start)
    THEN [cfg EXCEPT !.current_epoch = Wrapped(cfg.current_epoch + 1),
                     !.total_reminted = 0]
    ELSE cfg

\* the `if` block opening a new epoch
Rollover(cfg, current_time) ==
    IF EpochElapsed(current_time, cfg.epoch_start)
    THEN [cfg EXCEPT !.current_epoch = Wrapped(cfg.current_epoch + 1),
                     !.epoch_start = current_time,
                     !.total_reminted = 0]
    ELSE cfg

CapTotal_RewardOnly(total_reminted, final_reward) == final_reward

\* config.total_reminted.checked_add(final_reward)
CapTotal(total_reminted, final_reward) ==
    checked_add(total_reminted, final_reward)

WithinCap_Always(total, weekly_cap) == TRUE

WithinCap(total, weekly_cap) == total <= weekly_cap

distribute_reward_handler(authority, target, reward_amount) ==
    LET fail(e, cfg, cr, f) == Outcome(e, cfg, user_credits, cr, token_balance,
                                       mint_supply, None, None, f, None)
        c == creator[target]
        multiplier == Multiplier(c.tier)
        final_reward == FinalReward(reward_amount, multiplier)
        current_time == clock
        cfg1 == Rollover(config, current_time)
    IN
    IF ~IsAuthority(authority) THEN fail("Unauthorized", config, creator, None)
    ELSE IF ~PoolCovers(config.remint_pool, reward_amount)
    THEN fail("InsufficientPool", config, creator, None)
    ELSE IF Aborts(reward_amount * multiplier)
    THEN fail("Panic", config, creator, None)
    ELSE IF RolloverAborts(config, current_time)
    THEN fail("Panic", config, creator, final_reward)
    ELSE
    LET capped == CapTotal(cfg1.total_reminted, final_reward)
    IN
    IF capped = None THEN fail("Panic", cfg1, creator, final_reward)
    ELSE IF ~WithinCap(capped, cfg1.weekly_cap)
    THEN fail("WeeklyCapExceeded", cfg1, creator, final_reward)
    ELSE
    LET pending == checked_add(c.pending_rewards, final_reward)
    IN
    IF pending = None THEN fail("Overflow", cfg1, creator, final_reward)
    ELSE
    LET cr1 == [creator EXCEPT ![target] =
                   [c EXCEPT !.pending_rewards = pending, !.weekly_views = 0]]
        pool == checked_sub(cfg1.remint_pool, final_reward)
    IN
    IF pool = None THEN fail("Underflow", cfg1, cr1, final_reward)
    ELSE
    LET cfg2 == [cfg1 EXCEPT !.remint_pool = pool]
        reminted == checked_add(cfg2.total_reminted, final_reward)
    IN
    IF reminted = None THEN fail("Overflow", cfg2, cr1, final_reward)
    ELSE Outcome("Ok", [cfg2 EXCEPT !.total_reminted = reminted], user_credits,
                 cr1, token_balance, mint_supply, None, None, final_reward,
                 None)

distribute_reward(authority, target, reward_amount) ==
    /\ creator[target].init
    /\ Commit(Call("distribute_reward", authority, target, reward_amount,
                   "none"),
              distribute_reward_handler(authority, target, reward_amount))

----------------------------------------------------------------------------
(* claim_rewards *)

Claimable(amount) == amount > 0

\* seeds = [b"creator", creator.user], as the other instructions have them:
\* the profile is whichever one the caller supplies
ClaimedProfile_Supplied(user) == "alice"

\* the profile addressed by seeds = [b"creator", user.key()]
ClaimedProfile(user) == user

\* the token account constrained by owner == creator.payout_address
PayoutAccount(c) == c.payout_address

AfterClaim_KeepPending(c, earned) == [c EXCEPT !.total_earned = earned]

\* a claim that empties pending_rewards without recording the earning
AfterClaim_ForgetEarned(c, earned) == [c EXCEPT !.pending_rewards = 0]

AfterClaim(c, earned) ==
    [c EXCEPT !.total_earned = earned, !.pending_rewards = 0]

claim_rewards_handler(user) ==
    LET fail(e, m) == Outcome(e, config, user_credits, creator, token_balance,
                              mint_supply, None, None, None, m)
        who == ClaimedProfile(user)
        c == creator[who]
        amount == c.pending_rewards
    IN
    IF ~Claimable(amount) THEN fail("NothingToClaim", None)
    \* token::mint_to
    ELSE IF mint_supply + amount > U64_MAX THEN fail("LedgerOverflow", None)
    ELSE
    LET bal1 == LedgerCredit(token_balance, PayoutAccount(c), amount)
        sup1 == mint_supply + amount
        earned == checked_add(c.total_earned, amount)
    IN
    IF earned = None THEN fail("Overflow", None)
    ELSE Outcome("Ok", config, user_credits,
                 [creator EXCEPT ![who] = AfterClaim(c, earned)],
                 bal1, sup1, None, None, None, amount)

claim_rewards(user) ==
    /\ creator[ClaimedProfile(user)].init
    /\ Commit(Call("claim_rewards", user, ClaimedProfile(user), 0, "none"),
              claim_rewards_handler(user))

----------------------------------------------------------------------------
(* The clock *)

Tick(max) ==
    /\ clock < max * TickStep
    /\ clock' = clock + TickStep
    /\ last' = [op |-> "tick", caller |-> "none", target |-> "none",
                arg |-> 0, tier |-> "none", err |-> "Ok", burn_amount |-> None,
                remint_amount |-> None, final_reward |-> None, minted |-> None]
    /\ UNCHANGED <<overflow_checks, config, user_credits, creator,
                   token_balance, mint_supply, epoch_distributed, batch>>

----------------------------------------------------------------------------
(* The program under a workload W: the calls its clients make *)

Step(W) ==
    \/ \E c \in W.burns : burn_for_credits(c[1], c[2])
    \/ \E c \in W.registrations : register_creator(c[1], c[2])
    \/ \E c \in W.views : record_views(c[1], c[2], c[3])
    \/ \E c \in W.reputations : update_reputation(c[1], c[2], c[3], c[4])
    \/ \E c \in W.rewards : distribute_reward(c[1], c[2], c[3])
    \/ \E user \in W.claimers : claim_rewards(user)
    \/ Tick(W.ticks)

\* Two users burning every kind of amount; one creator
BurnWorkload ==
    [caps |-> {SmallCap},
     burns |-> ({"alice"} \X {0, HalfAmount, MaxSafeAmount, OverflowAmount,
                               DoubleOverflowAmount})
                  \cup {<<"bob", HalfAmount>>},
     registrations |-> {<<"alice", "alice">>},
     views |-> {<<"auth", "alice", ViewsPerReport>>},
     reputations |-> {<<"auth", "alice", 100, "Gold">>},
     rewards |-> {<<"auth", "alice", SmallReward>>},
     claimers |-> {"alice"},
     ticks |-> 1]

InitBurn == Init(BurnWorkload)
NextBurn == Step(BurnWorkload)
SpecBurn == InitBurn /\ [][NextBurn]_vars

\* Two creators, the authority and a user calling every profile operation
ProfileWorkload ==
    [caps |-> {SmallCap},
     burns |-> {<<"alice", 0>>, <<"alice", BaseAmount>>},
     registrations |-> {<<"alice", "alice">>, <<"bob", "alice">>},
     views |-> {"auth", "bob"} \X {"alice", "bob"} \X {ViewsPerReport},
     reputations |-> {<<a, t, p[1], p[2]>> :
                        a \in {"auth", "bob"}, t \in {"alice", "bob"},
                        p \in {<<100, "Gold">>, <<101, "Diamond">>}},
     rewards |-> {"auth", "bob"} \X {"alice", "bob"}
                    \X {SmallReward, 2 * SmallCap},
     claimers |-> {"alice", "bob"},
     ticks |-> 1]

InitProfile == Init(ProfileWorkload)
NextProfile == Step(ProfileWorkload)
SpecProfile == InitProfile /\ [][NextProfile]_vars

\* Distributions at every tier, across epochs, against the pool and the cap
RewardWorkload ==
    [caps |-> {SmallCap},
     burns |-> {<<"alice", BaseAmount>>, <<"bob", BaseAmount>>},
     registrations |-> {<<"alice", "alice">>, <<"bob", "bob">>},
     views |-> {<<"auth", "alice", ViewsPerReport>>},
     reputations |-> {"auth"} \X {"alice"} \X {100} \X CreatorTier,
     rewards |-> ({"auth"} \X {"alice"} \X {BaseReward, OverflowReward})
                    \cup {<<"auth", "bob", BaseReward>>},
     claimers |-> {"alice"},
     ticks |-> MaxTicks]

InitReward == Init(RewardWorkload)
NextReward == Step(RewardWorkload)
SpecReward == InitReward /\ [][NextReward]_vars

----------------------------------------------------------------------------
(* Concurrent distributions.  Transactions submitted together are run by   *)
(* the host one after the other, in any order: DistributeReward takes      *)
(* Config as a writable account, and the host never runs two transactions  *)
(* that write the same account at the same time.                           *)

\* the authority submits two distributions at once, after an epoch boundary
Submit(first, second) ==
    /\ batch = NoBatch
    /\ clock - config.epoch_start >= week_seconds
    /\ creator[first[1]].init
    /\ creator[second[1]].init
    /\ batch' = [calls |-> {<<1, first[1], first[2]>>,
                            <<2, second[1], second[2]>>},
                 epoch |-> config.current_epoch,
                 reminted |-> config.total_reminted,
                 ok |-> 0, resets |-> 0, paid |-> 0]
    /\ last' = [op |-> "submit", caller |-> config.authority,
                target |-> "none", arg |-> 0, tier |-> "none", err |-> "Ok",
                burn_amount |-> None, remint_amount |-> None,
                final_reward |-> None, minted |-> None]
    /\ UNCHANGED <<overflow_checks, config, user_credits, creator,
                   token_balance, mint_supply, clock, epoch_distributed>>

\* the host runs one of the submitted distributions, whichever it picks
Sequence(c) ==
    LET out == distribute_reward_handler(config.authority, c[2], c[3])
        ok == out.err = "Ok"
    IN /\ c \in batch.calls
       /\ Store(Call("distribute_reward", config.authority, c[2], c[3],
                     "none"), out)
       /\ batch' = [batch EXCEPT
                       !.calls = @ \ {c},
                       !.ok = @ + (IF ok THEN 1 ELSE 0),
                       !.resets = @ + (IF ok /\ EpochElapsed(clock,
                                                    config.epoch_start)
                                       THEN 1 ELSE 0),
                       !.paid = @ + (IF ok THEN out.final_reward ELSE 0)]

\* both transactions have run and their results have been returned
Settle ==
    /\ batch # NoBatch
    /\ batch.calls = {}
    /\ batch' = NoBatch
    /\ UNCHANGED <<overflow_checks, config, user_credits, creator,
                   token_balance, mint_supply, clock, last, epoch_distributed>>

\* Two creators; distributions made one at a time or two at once
ConcurrentWorkload ==
    [caps |-> {SmallCap},
     burns |-> {<<"alice", BaseAmount>>, <<"bob", BaseAmount>>},
     registrations |-> {<<"alice", "alice">>, <<"bob", "bob">>},
     views |-> {<<"auth", "alice", ViewsPerReport>>},
     reputations |-> {"auth"} \X {"alice"} \X {100} \X {"Bronze", "Gold"},
     rewards |-> {<<"auth", "alice", BaseReward>>},
     claimers |-> {"alice"},
     ticks |-> MaxTicks]

Submitted == {"alice", "bob"} \X {SmallReward, BaseReward}

InitConcurrent == Init(ConcurrentWorkload)

NextConcurrent ==
    \/ batch = NoBatch /\ Step(ConcurrentWorkload)
    \/ \E first \in Submitted, second \in Submitted : Submit(first, second)
    \/ \E c \in batch.calls : Sequence(c)
    \/ Settle

SpecConcurrent == InitConcurrent /\ [][NextConcurrent]_vars

----------------------------------------------------------------------------
(* Properties *)

IsCall(l, op) == l.op = op
Succeeded(l, op) == l.op = op /\ l.err = "Ok"

\* C1: a successful burn_for_credits(amount), amount > 0, burns exactly
\* floor(amount*75/100) and moves exactly floor(amount*25/100) to the pool,
\* both over the integers, their sum is at most amount, and the caller's
\* credits grow by exactly amount.
C1_ExactSplit ==
    [][Succeeded(last', "burn_for_credits") =>
         LET amount == last'.arg
             user == last'.caller
         IN /\ amount > 0
            /\ mint_supply - mint_supply' = (amount * 75) \div 100
            /\ token_balance'["treasury"] - token_balance["treasury"]
                  = (amount * 25) \div 100
            /\ last'.burn_amount + last'.remint_amount <= amount
            /\ user_credits'[user].credits
                  = user_credits[user].credits + amount]_vars

\* C2: a successful burn_for_credits(amount) by user u adds remint_amount to
\* Config.remint_pool and burn_amount to Config.total_burned, adds amount to
\* credits and total_burned of u's Credit Account (zero counters when it did
\* not exist), takes burn_amount + remint_amount from u's balance, gives
\* remint_amount to the pool-holding balance and burn_amount off the supply,
\* and changes nothing else: the epoch fields, the other Credit Accounts and
\* every Creator Profile stay as they were.
C2_BurnEffects ==
    [][Succeeded(last', "burn_for_credits") =>
         LET amount == last'.arg
             u == last'.caller
             burn_amount == last'.burn_amount
             remint_amount == last'.remint_amount
             before == IF user_credits[u].init THEN user_credits[u]
                       ELSE [init |-> FALSE, credits |-> 0, total_burned |-> 0]
         IN /\ config' = [config EXCEPT
                             !.remint_pool = @ + remint_amount,
                             !.total_burned = @ + burn_amount]
            /\ user_credits' = [user_credits EXCEPT ![u] =
                                   [init |-> TRUE,
                                    credits |-> before.credits + amount,
                                    total_burned |-> before.total_burned + amount]]
            /\ creator' = creator
            /\ token_balance' = [token_balance EXCEPT
                                    ![u] = @ - (burn_amount + remint_amount),
                                    !["treasury"] = @ + remint_amount]
            /\ mint_supply' = mint_supply - burn_amount]_vars

\* a second burn of a user adding to an existing Credit Account, with a
\* profile registered, an epoch opened and another user's account present
C2_Witness ==
    /\ Succeeded(last, "burn_for_credits")
    /\ user_credits[last.caller].credits > last.arg
    /\ \E v \in Identities \ {last.caller} : user_credits[v].init
    /\ \E c \in Identities : creator[c].init
    /\ config.current_epoch > 0

\* C3: burn_for_credits(0) fails with InvalidAmount; no ledger burn or
\* transfer happens, Config is unchanged, no Credit Account is created or
\* modified.
C3_ZeroAmountRejected ==
    [][(IsCall(last', "burn_for_credits") /\ last'.arg = 0) =>
         /\ last'.err = "InvalidAmount"
         /\ UNCHANGED accounts]_vars

\* burn_for_credits(0) was called by a user with no Credit Account yet
C3_Witness ==
    /\ IsCall(last, "burn_for_credits")
    /\ last.arg = 0
    /\ ~user_credits[last.caller].init
    /\ config.remint_pool > 0

\* C4: register_creator by an identity with no profile creates one with
\* reputation_score 50, tier Silver and zero counters; by an identity that
\* has a profile it fails and leaves that profile (and everything else) as
\* it was, whatever the profile has accumulated.
C4_RegisterOnce ==
    [][IsCall(last', "register_creator") =>
         LET user == last'.caller
         IN IF creator[user].init
            THEN /\ last'.err # "Ok"
                 /\ UNCHANGED accounts
            ELSE /\ last'.err = "Ok"
                 /\ creator' = [creator EXCEPT ![user] =
                        [init |-> TRUE, payout_address |-> last'.target,
                         total_views |-> 0, weekly_views |-> 0,
                         reputation_score |-> 50, tier |-> "Silver",
                         total_earned |-> 0, pending_rewards |-> 0]]
                 /\ UNCHANGED <<config, user_credits, token_balance,
                                mint_supply>>]_vars

\* a second registration, refused, of a profile that has views, a new
\* reputation and tier, and earnings
C4_Witness ==
    /\ IsCall(last, "register_creator")
    /\ last.err # "Ok"
    /\ LET c == creator[last.caller]
       IN /\ c.total_views > 0
          /\ c.reputation_score # 50
          /\ c.tier # "Silver"
          /\ c.total_earned > 0

Privileged == {"record_views", "update_reputation", "distribute_reward"}

\* C5: record_views, update_reputation and distribute_reward called by an
\* identity other than Config.authority fail with Unauthorized and change
\* no record, whatever their other arguments.
C5_Unauthorized ==
    [][(last'.op \in Privileged /\ last'.caller # config.authority) =>
         /\ last'.err = "Unauthorized"
         /\ UNCHANGED accounts]_vars

\* a distribution asked by a user after the epoch boundary, for more than
\* the pool and the cap hold
C5_Witness ==
    /\ IsCall(last, "distribute_reward")
    /\ last.caller # config.authority
    /\ last.arg > config.remint_pool
    /\ last.arg > config.weekly_cap
    /\ config.remint_pool > 0
    /\ clock - config.epoch_start >= week_seconds

\* the value of total_reminted the cap check of a distribution starts from
CapBase ==
    IF clock - config.epoch_start >= week_seconds THEN 0
    ELSE config.total_reminted

\* C6: a distribute_reward by the authority with remint_pool >= reward_amount,
\* remint_pool < final_reward and the weekly cap not exceeded fails with
\* Underflow and leaves every record unchanged (pending_rewards,
\* weekly_views, remint_pool, total_reminted, current_epoch, epoch_start).
C6_PoolUnderflow ==
    [][(/\ IsCall(last', "distribute_reward")
        /\ last'.caller = config.authority
        /\ config.remint_pool >= last'.arg
        /\ last'.final_reward # None
        /\ config.remint_pool < last'.final_reward
        /\ CapBase + last'.final_reward <= config.weekly_cap) =>
         /\ last'.err = "Underflow"
         /\ UNCHANGED accounts]_vars

\* a Gold distribution of a base equal to the whole pool was refused with
\* Underflow after an epoch boundary, on a profile with views of the week
C6_Witness ==
    /\ IsCall(last, "distribute_reward")
    /\ last.err = "Underflow"
    /\ config.remint_pool = last.arg
    /\ last.final_reward > config.remint_pool
    /\ last.final_reward = config.weekly_cap
    /\ clock - config.epoch_start >= week_seconds
    /\ \E c \in Identities :
          /\ creator[c].init
          /\ creator[c].tier = "Gold"
          /\ creator[c].weekly_views > 0

\* C7: a successful distribute_reward at now - epoch_start >= 604800 adds
\* exactly one to current_epoch, sets epoch_start to now and leaves
\* total_reminted equal to its own final_reward; a successful one at
\* now - epoch_start < 604800 keeps current_epoch and epoch_start and adds
\* its final_reward to total_reminted.
C7_EpochRollover ==
    [][Succeeded(last', "distribute_reward") =>
         IF clock - config.epoch_start >= 604800
         THEN /\ config'.current_epoch = config.current_epoch + 1
              /\ config'.epoch_start = clock
              /\ config'.total_reminted = last'.final_reward
         ELSE /\ config'.current_epoch = config.current_epoch
              /\ config'.epoch_start = config.epoch_start
              /\ config'.total_reminted
                    = config.total_reminted + last'.final_reward]_vars

\* the epoch opened two weeks after initialize is the first one, and a
\* second distribution has been added to it
C7_Witness ==
    /\ Succeeded(last, "distribute_reward")
    /\ config.current_epoch = 1
    /\ config.epoch_start = 2 * week_seconds
    /\ last.final_reward > 0
    /\ config.total_reminted > last.final_reward

\* C8: in every reachable state Config.total_reminted <= Config.weekly_cap,
\* and the sum of the final_reward values distributed within the current
\* epoch is at most weekly_cap.
C8_CapInvariant ==
    /\ config.total_reminted <= config.weekly_cap
    /\ epoch_distributed <= config.weekly_cap

\* several distributions of a later epoch have filled the cap exactly
C8_Witness ==
    /\ Succeeded(last, "distribute_reward")
    /\ config.current_epoch > 0
    /\ config.total_reminted = config.weekly_cap
    /\ epoch_distributed = config.weekly_cap
    /\ last.final_reward < config.total_reminted

\* C9: claim_rewards on a profile with pending_rewards = p > 0 mints exactly
\* p to the payout target, adds p to total_earned and sets pending_rewards
\* to 0, changing nothing else; on a profile with pending_rewards = 0 (as a
\* claim leaves it until the next distribution) it fails with
\* NothingToClaim, mints nothing and changes no record.
C9_ClaimOnce ==
    [][IsCall(last', "claim_rewards") =>
         LET who == last'.caller
             c == creator[who]
             p == c.pending_rewards
         IN IF p > 0
            THEN /\ last'.err = "Ok"
                 /\ last'.minted = p
                 /\ mint_supply' = mint_supply + p
                 /\ token_balance' = [token_balance EXCEPT
                                         ![c.payout_address] = @ + p]
                 /\ creator' = [creator EXCEPT ![who] =
                                   [c EXCEPT !.total_earned = @ + p,
                                             !.pending_rewards = 0]]
                 /\ UNCHANGED <<config, user_credits>>
            ELSE /\ last'.err = "NothingToClaim"
                 /\ last'.minted = None
                 /\ UNCHANGED accounts]_vars

\* a claim refused on a profile that has claimed before and whose payout
\* target is another identity
C9_Witness ==
    /\ IsCall(last, "claim_rewards")
    /\ last.err = "NothingToClaim"
    /\ creator[last.caller].total_earned > 0
    /\ creator[last.caller].pending_rewards = 0
    /\ creator[last.caller].payout_address # last.caller

\* C10: a distribute_reward by the authority that passes the pool check and
\* for which total_reminted (after any rollover reset) + final_reward >
\* weekly_cap fails with WeeklyCapExceeded and leaves all records unchanged,
\* the rollover it had triggered included.
C10_CapExceeded ==
    [][(/\ IsCall(last', "distribute_reward")
        /\ last'.caller = config.authority
        /\ config.remint_pool >= last'.arg
        /\ last'.final_reward # None
        /\ CapBase + last'.final_reward > config.weekly_cap) =>
         /\ last'.err = "WeeklyCapExceeded"
         /\ UNCHANGED accounts]_vars

\* a distribution refused for the cap although the call had opened a new
\* epoch; the previous epoch's total is still in place
C10_Witness ==
    /\ IsCall(last, "distribute_reward")
    /\ last.err = "WeeklyCapExceeded"
    /\ clock - config.epoch_start >= week_seconds
    /\ config.total_reminted > 0
    /\ config.remint_pool >= last.arg
    /\ last.final_reward > config.weekly_cap

EpochFields == <<config.current_epoch, config.epoch_start, config.total_reminted>>

\* C11: Config.current_epoch never decreases, and a step that is not a
\* successful distribute_reward (any other operation, a failed
\* distribution, the passing of time) leaves current_epoch, epoch_start and
\* total_reminted unchanged.
C11_EpochFrame ==
    [][/\ config'.current_epoch >= config.current_epoch
       /\ ~Succeeded(last', "distribute_reward") => UNCHANGED EpochFields]_vars

\* a burn went through two weeks after the start of an epoch that is not
\* the first and that has distributions
C11_Witness ==
    /\ Succeeded(last, "burn_for_credits")
    /\ config.current_epoch > 0
    /\ config.total_reminted > 0
    /\ clock - config.epoch_start >= week_seconds

\* C12: pending_rewards of a Creator Profile grows only in a successful
\* distribute_reward targeting that profile and shrinks only in a
\* successful claim_rewards on that profile, then to exactly 0; every other
\* step leaves it unchanged.
C12_PendingFrame ==
    [][\A c \in Identities :
          LET before == creator[c].pending_rewards
              after == creator'[c].pending_rewards
          IN /\ after > before =>
                   Succeeded(last', "distribute_reward") /\ last'.target = c
             /\ after < before =>
                   /\ Succeeded(last', "claim_rewards")
                   /\ last'.caller = c
                   /\ after = 0]_vars

\* a claim emptied one profile's pending_rewards while another profile had
\* a pending reward
C12_Witness ==
    /\ Succeeded(last, "claim_rewards")
    /\ last.minted > 0
    /\ creator[last.caller].pending_rewards = 0
    /\ \E c \in Identities \ {last.caller} : creator[c].pending_rewards > 0

\* C13: the credits of a user's Credit Account never decrease: each
\* successful burn_for_credits by that user strictly increases them, and
\* every other step, burns of other users included, leaves them unchanged.
C13_CreditsMonotone ==
    [][\A u \in Identities :
          IF Succeeded(last', "burn_for_credits") /\ last'.caller = u
          THEN user_credits'[u].credits > user_credits[u].credits
          ELSE user_credits'[u].credits = user_credits[u].credits]_vars

\* a user's second burn, while another user holds credits
C13_Witness ==
    /\ Succeeded(last, "burn_for_credits")
    /\ user_credits[last.caller].credits > last.arg
    /\ \E v \in Identities \ {last.caller} : user_credits[v].credits > 0

ReputationBounded == \A c \in Identities : creator[c].reputation_score <= 100

\* C14: every Creator Profile has reputation_score <= 100 in every
\* reachable state; update_reputation by the authority with score > 100
\* fails with InvalidScore and changes nothing, and with score <= 100 it
\* sets reputation_score and tier of the target to the supplied values and
\* changes nothing else.
C14_Reputation ==
    /\ []ReputationBounded
    /\ [][(IsCall(last', "update_reputation")
             /\ last'.caller = config.authority) =>
            IF last'.arg > 100
            THEN /\ last'.err = "InvalidScore"
                 /\ UNCHANGED accounts
            ELSE /\ last'.err = "Ok"
                 /\ creator' = [creator EXCEPT ![last'.target] =
                                   [@ EXCEPT !.reputation_score = last'.arg,
                                             !.tier = last'.tier]]
                 /\ UNCHANGED <<config, user_credits, token_balance,
                                mint_supply>>]_vars

\* the authority's update to score 101 was refused on a profile that holds
\* score 100, a tier other than the initial one, views and a pending reward
C14_Witness ==
    /\ IsCall(last, "update_reputation")
    /\ last.caller = config.authority
    /\ last.arg > 100
    /\ last.err = "InvalidScore"
    /\ \E c \in Identities :
          /\ creator[c].init
          /\ creator[c].reputation_score = 100
          /\ creator[c].tier = "Gold"
          /\ creator[c].total_views > 0
          /\ creator[c].pending_rewards > 0

\* C15: a distribute_reward by the authority with remint_pool <
\* reward_amount fails with InsufficientPool and changes nothing, whatever
\* the tier (a final_reward that would fit in the pool included), the time
\* since epoch_start and the weekly cap.
C15_PoolCheckOnBase ==
    [][(/\ IsCall(last', "distribute_reward")
        /\ last'.caller = config.authority
        /\ config.remint_pool < last'.arg) =>
         /\ last'.err = "InsufficientPool"
         /\ last'.final_reward = None
         /\ UNCHANGED accounts]_vars

\* a distribution to a Bronze profile was refused with InsufficientPool
\* after an epoch boundary although half the base amount fits in both the
\* pool and the cap
C15_Witness ==
    /\ IsCall(last, "distribute_reward")
    /\ last.err = "InsufficientPool"
    /\ config.remint_pool > 0
    /\ config.remint_pool < last.arg
    /\ last.arg \div 2 <= config.remint_pool
    /\ last.arg \div 2 <= config.weekly_cap
    /\ clock - config.epoch_start >= week_seconds
    /\ \E c \in Identities : creator[c].init
    /\ \A c \in Identities : creator[c].init => creator[c].tier = "Bronze"

\* the multiplier table of the specification, in percent
TierPercent(tier) ==
    CASE tier = "Bronze" -> 50
      [] tier = "Silver" -> 100
      [] tier = "Gold" -> 150
      [] tier = "Platinum" -> 200
      [] tier = "Diamond" -> 250

\* C16: a successful distribute_reward(reward_amount) on a profile of tier t
\* uses final_reward = floor(reward_amount * m / 100) over the integers, m
\* the percentage of t, and does exactly this: the profile's pending_rewards
\* grows by final_reward, its weekly_views becomes 0, remint_pool shrinks by
\* final_reward, total_reminted (after any rollover reset) grows by
\* final_reward; the profile's other fields, Config.total_burned, the other
\* profiles, the Credit Accounts and the ledger are unchanged.
C16_ExactReward ==
    [][Succeeded(last', "distribute_reward") =>
         LET c == last'.target
             final_reward == (last'.arg * TierPercent(creator[c].tier)) \div 100
         IN /\ last'.final_reward = final_reward
            /\ creator' = [creator EXCEPT ![c] =
                              [@ EXCEPT !.pending_rewards = @ + final_reward,
                                        !.weekly_views = 0]]
            /\ config'.remint_pool = config.remint_pool - final_reward
            /\ config'.total_reminted = CapBase + final_reward
            /\ config'.total_burned = config.total_burned
            /\ config'.authority = config.authority
            /\ config'.weekly_cap = config.weekly_cap
            /\ UNCHANGED <<user_credits, token_balance, mint_supply>>]_vars

\* C17: an operation in which the exact result of an arithmetic step falls
\* outside the unsigned range of the word fails, and a failed operation
\* leaves all records unchanged: a burn_for_credits succeeds only if
\* amount*75 and amount*25 fit, a distribute_reward only if
\* reward_amount*multiplier, total_reminted + final_reward and
\* current_epoch + 1 fit.
C17_NoWrappedValue ==
    [][/\ last'.err # "Ok" => UNCHANGED accounts
       /\ Succeeded(last', "burn_for_credits") =>
             /\ last'.arg * 75 <= U64_MAX
             /\ last'.arg * 25 <= U64_MAX
       /\ Succeeded(last', "distribute_reward") =>
             /\ last'.arg * TierPercent(creator[last'.target].tier) <= U64_MAX
             /\ CapBase + last'.final_reward <= U64_MAX
             /\ config.current_epoch + 1 <= U64_MAX]_vars

\* C18: two distribute_reward calls submitted together after an epoch
\* boundary are run one after the other, and in every order, once both have
\* run and at least one has succeeded: current_epoch is one more than at
\* submission, exactly one successful call (the first sequenced) made the
\* reset, and total_reminted is the sum of the final_reward of the
\* successful calls and at most weekly_cap.
C18_SerializedRollover ==
    [][(batch.calls # {} /\ batch'.calls = {}) =>
         IF batch'.ok = 0
         THEN /\ batch'.resets = 0
              /\ config' = config
         ELSE /\ config'.current_epoch = batch'.epoch + 1
              /\ batch'.resets = 1
              /\ config'.total_reminted = batch'.paid
              /\ epoch_distributed' = batch'.paid
              /\ batch'.paid <= config'.weekly_cap]_vars

\* both calls of a batch have succeeded, the one to bob sequenced second,
\* in an epoch that follows one with distributions
C18_Witness ==
    /\ batch.calls = {}
    /\ batch.ok = 2
    /\ batch.resets = 1
    /\ batch.reminted > 0
    /\ Succeeded(last, "distribute_reward")
    /\ last.target = "bob"
    /\ last.final_reward > 0
    /\ config.total_reminted > last.final_reward
    /\ config.current_epoch = batch.epoch + 1

\* C19: claim_rewards signed by u acts only on the Creator Profile derived
\* from u: every other profile keeps its pending_rewards and total_earned
\* (and all its fields), only the balance owned by that profile's payout
\* target may change, and it does not shrink; Config and all Credit
\* Accounts are unchanged.
C19_ClaimFrame ==
    [][IsCall(last', "claim_rewards") =>
         LET u == last'.caller
             payout == creator[u].payout_address
         IN /\ \A c \in Identities \ {u} : creator'[c] = creator[c]
            /\ \A a \in TokenAccounts \ {payout} :
                  token_balance'[a] = token_balance[a]
            /\ mint_supply' - mint_supply
                  = IF payout \in TokenAccounts
                    THEN token_balance'[payout] - token_balance[payout]
                    ELSE 0
            /\ mint_supply' >= mint_supply
            /\ config' = config
            /\ user_credits' = user_credits]_vars

\* bob's claim was minted to alice, the payout target of bob's profile,
\* while alice has a profile of her own, and bob's own balance is what it
\* was
C19_Witness ==
    /\ Succeeded(last, "claim_rewards")
    /\ last.caller = "bob"
    /\ last.minted > 0
    /\ creator["bob"].payout_address = "alice"
    /\ creator["alice"].init
    /\ creator["alice"].total_views > 0
    /\ token_balance["bob"] = InitialBalance
    /\ user_credits["alice"].credits > 0

\* what the pool has handed to one profile: not yet claimed, or claimed
ProfileValue(c) == creator[c].pending_rewards + creator[c].total_earned

RECURSIVE SumProfiles(_)
SumProfiles(S) ==
    IF S = {} THEN 0
    ELSE LET c == CHOOSE x \in S : TRUE
         IN ProfileValue(c) + SumProfiles(S \ {c})

RECURSIVE SumEarned(_)
SumEarned(S) ==
    IF S = {} THEN 0
    ELSE LET c == CHOOSE x \in S : TRUE
         IN creator[c].total_earned + SumEarned(S \ {c})

\* everything transferred into the pool-holding balance: that balance is 0
\* after initialize and only the transfer of remint_amount in a successful
\* burn_for_credits changes it
PoolInflow == token_balance["treasury"]

\* C20: in every reachable state remint_pool plus the sum over all Creator
\* Profiles of pending_rewards + total_earned equals the sum of
\* remint_amount over all successful burns; the total minted by claims is
\* at most that sum, and so is remint_pool.
C20_PoolConserved ==
    /\ config.remint_pool + SumProfiles(Identities) = PoolInflow
    /\ SumEarned(Identities) <= PoolInflow
    /\ config.remint_pool <= PoolInflow
    /\ mint_supply + config.total_burned
          = 2 * InitialBalance + SumEarned(Identities)

\* pool value is spread over the pool, one profile's claimed earnings and
\* another profile's pending reward, in an epoch after the first
C20_Witness ==
    /\ config.remint_pool > 0
    /\ config.current_epoch > 0
    /\ \E c \in Identities :
          /\ creator[c].total_earned > 0
          /\ \E d \in Identities \ {c} : creator[d].pending_rewards > 0

====
